---- MODULE Spec2Model ----
(***************************************************************************)
(* State-machine model of src-tauri/src/main.rs: the command handlers, the *)
(* system-tray event handler, the global-shortcut callbacks and the        *)
(* startup hook of the NYX OS desktop shell.                               *)
(*                                                                         *)
(* The windowing toolkit is the environment.  Every fallible toolkit call  *)
(* either succeeds, with the effect its name states, or fails and leaves   *)
(* the toolkit state unchanged; which of the two happens is chosen         *)
(* nondeterministically.  Handlers are atomic steps: `last` records, for   *)
(* the most recent step, the handler, the handle it was passed, the        *)
(* toolkit calls it made in order and the value it returned.               *)
(***************************************************************************)
EXTENDS Integers, Sequences, FiniteSets

(***************************************************************************)
(* Bounds of the model.                                                    *)
(***************************************************************************)
MaxCpus == 2          \* largest value the parallelism query reports
MaxExtraLabels == 1   \* window labels the frontend uses besides "main"
MaxCustomAccels == 1  \* accelerators the frontend uses besides the default
MaxInvocations == 3   \* handler invocations after startup in a bounded session

(***************************************************************************)
(* Values of the program and of its environment.                           *)
(***************************************************************************)
MainLabel == "main"
NoWindow == "-"
ExtraLabelPool == <<"app1", "app2", "app3">>
Labels == {MainLabel} \cup {ExtraLabelPool[i] : i \in 1..MaxExtraLabels}

DefaultAccelerator == "CmdOrCtrl+Shift+N"
CustomAccelPool == <<"Alt+1", "Alt+2", "Alt+3">>
Accelerators == {DefaultAccelerator} \cup {CustomAccelPool[i] : i \in 1..MaxCustomAccels}

TrayMenuIds == {"show", "hide", "quit"}
MenuIdInputs == TrayMenuIds \cup {"about"}
OtherTrayEvents == {"RightClick", "DoubleClick"}

WindowCreatedEvent == "nyx:native-window-created"
GlobalShortcutEvent == "nyx:global-shortcut"

KnownOS == {"linux", "macos", "ios", "freebsd", "dragonfly", "netbsd",
            "openbsd", "solaris", "android", "windows"}
BuildTargets == {"linux", "windows"}
InstalledApps == {"nautilus"}
AppPathInputs == {"nautilus", "/no/such/app"}

BoolStr(b) == IF b THEN "true" ELSE "false"


(***************************************************************************)
(* Errors of the toolkit and of the standard library, and their Display    *)
(* text (what e.to_string() and "{}" produce).                             *)
(***************************************************************************)
to_string(e) ==
    CASE e = "NotFound" -> "No such file or directory (os error 2)"
      [] e = "PermissionDenied" -> "Permission denied (os error 13)"
      [] e = "FailedToSendMessage" -> "failed to send message"
      [] e = "WindowLabelAlreadyExists" -> "a window with this label already exists"
      [] e = "CreateWindow" -> "failed to create window"
      [] e = "GlobalShortcut" -> "failed to handle global shortcut"

\* One fallible call made by a handler: its name, the handle or key it was
\* made on, its argument, whether it succeeded and the error if it did not.
Call(fn, target, arg, ok, e) ==
    [fn |-> fn, target |-> target, arg |-> arg, ok |-> ok,
     err |-> IF ok THEN "" ELSE e]

\* Values a handler returns.  `msg` is an error string, as the sequence of
\* its fragments; `value` is the JSON object an Ok carries.
UnitValue == [unit |-> TRUE]
Ok(v) == [tag |-> "Ok", msg |-> <<>>, value |-> v]
Err(msg) == [tag |-> "Err", msg |-> msg, value |-> UnitValue]
\* a closure returning ()
Unit == [tag |-> "Unit", msg |-> <<>>, value |-> UnitValue]
\* a handler that does not return
Diverges == [tag |-> "Never", msg |-> <<>>, value |-> UnitValue]

\* mutant: the error is swallowed
MapErrToString_swallowed(c) == Ok(UnitValue)

\* .map_err(|e| e.to_string())
MapErrToString(c) == IF c.ok THEN Ok(UnitValue) ELSE Err(<<to_string(c.err)>>)

\* .map_err(|e| format!("<prefix>{}", e))
MapErrFormat(prefix, c) ==
    IF c.ok THEN Ok(UnitValue) ELSE Err(<<prefix, to_string(c.err)>>)

(***************************************************************************)
(* State.                                                                  *)
(***************************************************************************)
VARIABLES
    phase,       \* "setup" | "running" | "exited"
    exitCode,    \* <<>> while the process lives, <<code>> once it has exited
    os,          \* std::env::consts::OS of this build
    windows,     \* label -> window state, for the windows that exist
    focused,     \* label of the window holding input focus, or NoWindow
    shortcuts,   \* accelerator -> payload its callback emits, if registered
    live,        \* history: accelerators whose latest successful registration
                 \* no successful unregistration has followed
    last,        \* the most recent step
    invocations  \* handler invocations counted by a bounded session

vars == <<phase, exitCode, os, windows, focused, shortcuts, live, last, invocations>>

NewWindow == [visible |-> TRUE, always_on_top |-> FALSE, fullscreen |-> FALSE,
              minimized |-> FALSE, maximized |-> FALSE]

Step(op, window, arg, calls, ret) ==
    [op |-> op, window |-> window, arg |-> arg, calls |-> calls, ret |-> ret]

Exists(label) == label \in DOMAIN windows

\* AppHandle::get_window
GetWindow(label) == IF Exists(label) THEN label ELSE NoWindow

Init ==
    /\ phase = "setup"
    /\ exitCode = <<>>
    /\ os \in BuildTargets
    /\ windows = [l \in {MainLabel} |-> NewWindow]
    /\ focused = MainLabel
    /\ shortcuts = <<>>
    /\ live = {}
    /\ last = Step("init", NoWindow, <<>>, <<>>, Unit)
    /\ invocations = 0

(***************************************************************************)
(* Effects of successful toolkit calls.                                    *)
(***************************************************************************)
\* mutant: hiding reaches every window
Hidden_all(ws, w) == [x \in DOMAIN ws |-> [ws[x] EXCEPT !.visible = FALSE]]

Hidden(ws, w) == [ws EXCEPT ![w].visible = FALSE]
Shown(ws, w) == [ws EXCEPT ![w].visible = TRUE]
Without(f, k) == [x \in DOMAIN f \ {k} |-> f[x]]
With(f, k, v) == [x \in DOMAIN f \cup {k} |-> IF x = k THEN v ELSE f[x]]

(***************************************************************************)
(* Window-state commands: each is passed the window it was invoked on.     *)
(***************************************************************************)
WindowCommand(op, w, arg, c, ws, foc) ==
    /\ phase = "running"
    /\ Exists(w)
    /\ windows' = IF c.ok THEN ws ELSE windows
    /\ focused' = IF c.ok THEN foc ELSE focused
    /\ last' = Step(op, w, <<arg>>, <<c>>, MapErrToString(c))
    /\ UNCHANGED <<phase, exitCode, os, shortcuts, live>>

set_window_always_on_top(w, always_on_top) ==
    \E ok \in BOOLEAN :
        WindowCommand("set_window_always_on_top", w, BoolStr(always_on_top),
            Call("set_always_on_top", w, BoolStr(always_on_top), ok, "FailedToSendMessage"),
            [windows EXCEPT ![w].always_on_top = always_on_top], focused)

set_window_fullscreen(w, fullscreen) ==
    \E ok \in BOOLEAN :
        WindowCommand("set_window_fullscreen", w, BoolStr(fullscreen),
            Call("set_fullscreen", w, BoolStr(fullscreen), ok, "FailedToSendMessage"),
            [windows EXCEPT ![w].fullscreen = fullscreen], focused)

minimize_window(w) ==
    \E ok \in BOOLEAN :
        WindowCommand("minimize_window", w, "",
            Call("minimize", w, "", ok, "FailedToSendMessage"),
            [windows EXCEPT ![w].minimized = TRUE], focused)

maximize_window(w) ==
    \E ok \in BOOLEAN :
        WindowCommand("maximize_window", w, "",
            Call("maximize", w, "", ok, "FailedToSendMessage"),
            [windows EXCEPT ![w].maximized = TRUE], focused)

hide_window(w) ==
    \E ok \in BOOLEAN :
        WindowCommand("hide_window", w, "",
            Call("hide", w, "", ok, "FailedToSendMessage"),
            Hidden(windows, w), IF focused = w THEN NoWindow ELSE focused)

show_window(w) ==
    \E ok \in BOOLEAN :
        WindowCommand("show_window", w, "",
            Call("show", w, "", ok, "FailedToSendMessage"),
            Shown(windows, w), focused)

(***************************************************************************)
(* Commands that take no handle.                                           *)
(***************************************************************************)
Arch == "x86_64"
Hostname == "nyx-host"
Clock == {1793491200, 1793491201}

\* std::thread::available_parallelism(): Err, or Ok of a non-zero count
AvailableParallelism ==
    {<<"Err">>} \cup {<<"Ok", n>> : n \in 1..MaxCpus}

\* .map(|n| n.get()).unwrap_or(default)
unwrap_or(r, default) == IF r[1] = "Ok" THEN r[2] ELSE default

\* mutant: the fallback count is 0
CpuCount_zero(q) == unwrap_or(q, 0)

CpuCount(q) == unwrap_or(q, 1)

get_system_info ==
    /\ phase = "running"
    /\ \E q \in AvailableParallelism :
          last' = Step("get_system_info", NoWindow, q,
                       <<Call("available_parallelism", "", "", q[1] = "Ok", "Unsupported")>>,
                       Ok([platform |-> os, arch |-> Arch,
                           cpu_count |-> CpuCount(q), hostname |-> Hostname]))
    /\ UNCHANGED <<phase, exitCode, os, windows, focused, shortcuts, live>>

\* Command::new(&app_path).spawn()
Spawn(app_path, ok) ==
    IF app_path \in InstalledApps
    THEN Call("spawn", app_path, "", ok, "PermissionDenied")
    ELSE Call("spawn", app_path, "", FALSE, "NotFound")

\* mutant: the spawn error is dropped
LaunchResult_dropped(c) == Ok(UnitValue)

LaunchResult(c) == MapErrFormat("Failed to launch app: ", c)

launch_external_app(app_path) ==
    /\ phase = "running"
    /\ \E ok \in BOOLEAN :
          LET c == Spawn(app_path, ok)
          IN  last' = Step("launch_external_app", NoWindow, <<app_path>>, <<c>>, LaunchResult(c))
    /\ UNCHANGED <<phase, exitCode, os, windows, focused, shortcuts, live>>

DesktopApps ==
    LET win == os = "windows"
    IN  << [name |-> "File Manager", path |-> IF win THEN "explorer.exe" ELSE "nautilus",
            icon |-> "folder"],
           [name |-> "Terminal", path |-> IF win THEN "cmd.exe" ELSE "gnome-terminal",
            icon |-> "terminal"],
           [name |-> "Web Browser", path |-> IF win THEN "msedge.exe" ELSE "firefox",
            icon |-> "globe"] >>

get_desktop_apps ==
    /\ phase = "running"
    /\ last' = Step("get_desktop_apps", NoWindow, <<>>, <<>>, Ok([apps |-> DesktopApps]))
    /\ UNCHANGED <<phase, exitCode, os, windows, focused, shortcuts, live>>

get_performance_info ==
    /\ phase = "running"
    /\ \E now \in Clock :
          last' = Step("get_performance_info", NoWindow, <<>>, <<>>,
                       Ok([memory_usage |-> "Unknown", cpu_usage |-> "Unknown",
                           timestamp |-> now]))
    /\ UNCHANGED <<phase, exitCode, os, windows, focused, shortcuts, live>>

(***************************************************************************)
(* Native windows by label.                                                *)
(***************************************************************************)
Titles == {"Notes"}
NoSize == "None"
SizeInputs == {NoSize, "800.0"}

\* WindowBuilder::build: fails when the label is in use, and may fail otherwise
Build(label, title, ok) ==
    IF Exists(label)
    THEN Call("build", label, title, FALSE, "WindowLabelAlreadyExists")
    ELSE Call("build", label, title, ok, "CreateWindow")

EmitCreated(label, ok) ==
    Call("emit_all", WindowCreatedEvent, label, ok, "FailedToSendMessage")

\* mutant: the build result is not checked before the event is emitted
CreateCalls_emitAlways(label, title, width, height, okBuild, okEmit) ==
    <<Build(label, title, okBuild), EmitCreated(label, okEmit)>>

\* the calls create_native_window makes, in order, up to the first `?` that fails
CreateCalls(label, title, width, height, okBuild, okEmit) ==
    LET size == IF width # NoSize /\ height # NoSize
                THEN <<Call("inner_size", label, "", TRUE, "")>> ELSE <<>>
        b == Build(label, title, okBuild)
    IN  IF b.ok THEN size \o <<b, EmitCreated(label, okEmit)>> ELSE size \o <<b>>

CreateResult(calls) ==
    LET c == calls[Len(calls)]
    IN  IF c.fn = "build" THEN MapErrFormat("Failed to create window: ", c)
        ELSE MapErrToString(c)

Built(calls) == \E i \in 1..Len(calls) : calls[i].fn = "build" /\ calls[i].ok

create_native_window(label, title, width, height) ==
    /\ phase = "running"
    /\ \E okBuild \in BOOLEAN :
       \E okEmit \in IF Build(label, title, okBuild).ok THEN BOOLEAN ELSE {FALSE} :
          LET calls == CreateCalls(label, title, width, height, okBuild, okEmit)
          IN  /\ windows' = IF Built(calls) THEN With(windows, label, NewWindow) ELSE windows
              /\ focused' = IF Built(calls) THEN label ELSE focused
              /\ last' = Step("create_native_window", NoWindow, <<label>>, calls,
                              CreateResult(calls))
    /\ UNCHANGED <<phase, exitCode, os, shortcuts, live>>

WindowNotFound == Err(<<"Window not found">>)

FocusCalls(window, okShow, okFocus) ==
    LET s == Call("show", window, "", okShow, "FailedToSendMessage")
    IN  IF s.ok THEN <<s, Call("set_focus", window, "", okFocus, "FailedToSendMessage")>>
        ELSE <<s>>

Succeeded(calls, fn) == \E i \in 1..Len(calls) : calls[i].fn = fn /\ calls[i].ok

focus_native_window(label) ==
    /\ phase = "running"
    /\ LET window == GetWindow(label)
       IN  IF window # NoWindow
           THEN \E okShow \in BOOLEAN :
                \E okFocus \in IF okShow THEN BOOLEAN ELSE {FALSE} :
                  LET calls == FocusCalls(window, okShow, okFocus)
                  IN  /\ windows' = IF Succeeded(calls, "show")
                                    THEN Shown(windows, window) ELSE windows
                      /\ focused' = IF Succeeded(calls, "set_focus")
                                    THEN window ELSE focused
                      /\ last' = Step("focus_native_window", NoWindow, <<label>>, calls,
                                      MapErrToString(calls[Len(calls)]))
           ELSE /\ last' = Step("focus_native_window", NoWindow, <<label>>, <<>>, WindowNotFound)
                /\ UNCHANGED <<windows, focused>>
    /\ UNCHANGED <<phase, exitCode, os, shortcuts, live>>

\* mutant: a closed window stays in the window map
Closed_kept(ws, window) == ws

\* Window::close
Closed(ws, window) == Without(ws, window)

close_native_window(label) ==
    /\ phase = "running"
    /\ LET window == GetWindow(label)
       IN  IF window # NoWindow
           THEN \E ok \in BOOLEAN :
                  LET c == Call("close", window, "", ok, "FailedToSendMessage")
                  IN  /\ windows' = IF c.ok THEN Closed(windows, window) ELSE windows
                      /\ focused' = IF c.ok /\ focused = window THEN NoWindow ELSE focused
                      /\ last' = Step("close_native_window", NoWindow, <<label>>, <<c>>,
                                      MapErrToString(c))
           ELSE /\ last' = Step("close_native_window", NoWindow, <<label>>, <<>>, WindowNotFound)
                /\ UNCHANGED <<windows, focused>>
    /\ UNCHANGED <<phase, exitCode, os, shortcuts, live>>

(***************************************************************************)
(* Global shortcuts.                                                       *)
(***************************************************************************)
\* mutant: every callback emits the default accelerator
RegisterPayload_default(accelerator) == DefaultAccelerator

\* the callback a registration installs emits this payload
RegisterPayload(accelerator) == accelerator

Registered(sc, accelerator, ok) ==
    IF ok THEN With(sc, accelerator, RegisterPayload(accelerator)) ELSE sc

Unregistered(sc, accelerator, ok) ==
    IF ok THEN Without(sc, accelerator) ELSE sc

\* bookkeeping of the history of successful calls, kept apart from `shortcuts`
Recorded(h, accelerator, what, ok) ==
    IF ~ok THEN h
    ELSE IF what = "register" THEN h \cup {accelerator} ELSE h \ {accelerator}

register_global_shortcut(accelerator) ==
    /\ phase = "running"
    /\ \E ok \in BOOLEAN :
          LET c == Call("register", accelerator, RegisterPayload(accelerator), ok,
                        "GlobalShortcut")
          IN  /\ shortcuts' = Registered(shortcuts, accelerator, c.ok)
              /\ live' = Recorded(live, accelerator, "register", c.ok)
              /\ last' = Step("register_global_shortcut", NoWindow, <<accelerator>>, <<c>>,
                              MapErrFormat("Failed to register shortcut: ", c))
    /\ UNCHANGED <<phase, exitCode, os, windows, focused>>

unregister_global_shortcut(accelerator) ==
    /\ phase = "running"
    /\ \E ok \in BOOLEAN :
          LET c == Call("unregister", accelerator, "", ok, "GlobalShortcut")
          IN  /\ shortcuts' = Unregistered(shortcuts, accelerator, c.ok)
              /\ live' = Recorded(live, accelerator, "unregister", c.ok)
              /\ last' = Step("unregister_global_shortcut", NoWindow, <<accelerator>>, <<c>>,
                              MapErrFormat("Failed to unregister shortcut: ", c))
    /\ UNCHANGED <<phase, exitCode, os, windows, focused>>

\* what pressing an accelerator runs: the registered callback, if there is one
ShortcutCallback(sc, accelerator, ok) ==
    IF accelerator \in DOMAIN sc
    THEN <<Call("emit_all", GlobalShortcutEvent, sc[accelerator], ok, "FailedToSendMessage")>>
    ELSE <<>>

\* The user presses an accelerator.
shortcut_pressed(accelerator) ==
    /\ phase = "running"
    /\ \E ok \in BOOLEAN :
          last' = Step("shortcut_pressed", NoWindow, <<accelerator>>,
                       ShortcutCallback(shortcuts, accelerator, ok), Unit)
    /\ UNCHANGED <<phase, exitCode, os, windows, focused, shortcuts, live>>

(***************************************************************************)
(* System tray.                                                            *)
(***************************************************************************)
TrayEvents ==
    {<<"LeftClick", "">>} \cup {<<e, "">> : e \in OtherTrayEvents}
        \cup {<<"MenuItemClick", id>> : id \in MenuIdInputs}

\* mutant: an unknown event falls into the "hide" arm
TrayArm_unknownHides(event) ==
    CASE event[1] = "LeftClick" -> "show"
      [] event[1] = "MenuItemClick" /\ event[2] = "quit" -> "quit"
      [] event[1] = "MenuItemClick" /\ event[2] = "show" -> "show"
      [] OTHER -> "hide"

\* the arm of the two matches an event is dispatched to
TrayArm(event) ==
    CASE event[1] = "LeftClick" -> "show"
      [] event[1] = "MenuItemClick" /\ event[2] = "quit" -> "quit"
      [] event[1] = "MenuItemClick" /\ event[2] = "show" -> "show"
      [] event[1] = "MenuItemClick" /\ event[2] = "hide" -> "hide"
      [] OTHER -> "ignore"

\* mutant: the tray acts on whichever window has focus
TrayWindow_focused == IF focused # NoWindow THEN focused ELSE GetWindow(MainLabel)

\* the window the tray arms act on
TrayWindow == GetWindow(MainLabel)

\* let _ = window.show(); let _ = window.set_focus();
TrayShowCalls(window, okShow, okFocus) ==
    << Call("show", window, "", okShow, "FailedToSendMessage"),
       Call("set_focus", window, "", okFocus, "FailedToSendMessage") >>

TrayShow(event) ==
    LET window == TrayWindow
    IN  /\ IF window # NoWindow
           THEN \E okShow, okFocus \in BOOLEAN :
                  LET calls == TrayShowCalls(window, okShow, okFocus)
                  IN  /\ windows' = IF Succeeded(calls, "show")
                                    THEN Shown(windows, window) ELSE windows
                      /\ focused' = IF Succeeded(calls, "set_focus")
                                    THEN window ELSE focused
                      /\ last' = Step("on_system_tray_event", NoWindow, event, calls, Unit)
           ELSE /\ last' = Step("on_system_tray_event", NoWindow, event, <<>>, Unit)
                /\ UNCHANGED <<windows, focused>>
        /\ UNCHANGED <<phase, exitCode>>

TrayHide(event) ==
    LET window == TrayWindow
    IN  /\ IF window # NoWindow
           THEN \E ok \in BOOLEAN :
                  LET c == Call("hide", window, "", ok, "FailedToSendMessage")
                  IN  /\ windows' = IF c.ok THEN Hidden(windows, window) ELSE windows
                      /\ focused' = IF c.ok /\ focused = window THEN NoWindow ELSE focused
                      /\ last' = Step("on_system_tray_event", NoWindow, event, <<c>>, Unit)
           ELSE /\ last' = Step("on_system_tray_event", NoWindow, event, <<>>, Unit)
                /\ UNCHANGED <<windows, focused>>
        /\ UNCHANGED <<phase, exitCode>>

\* _ => {}
TrayIgnore(event) ==
    /\ last' = Step("on_system_tray_event", NoWindow, event, <<>>, Unit)
    /\ UNCHANGED <<phase, exitCode, windows, focused>>

\* mutant: the "quit" arm returns without ending the process
TrayQuit_returns(event) == TrayIgnore(event)

\* std::process::exit(0)
TrayQuit(event) ==
    /\ phase' = "exited"
    /\ exitCode' = <<0>>
    /\ last' = Step("on_system_tray_event", NoWindow, event, <<>>, Diverges)
    /\ UNCHANGED <<windows, focused>>

on_system_tray_event(event) ==
    /\ phase = "running"
    /\ LET arm == TrayArm(event)
       IN  CASE arm = "show" -> TrayShow(event)
             [] arm = "hide" -> TrayHide(event)
             [] arm = "quit" -> TrayQuit(event)
             [] OTHER -> TrayIgnore(event)
    /\ UNCHANGED <<os, shortcuts, live>>

(***************************************************************************)
(* Startup.                                                                *)
(***************************************************************************)
PanicExitCode == 101

\* let _ = set_title; let _ = set_fullscreen(true); let _ = gsm.register(...)
SetupCalls(window, okTitle, okFull, okReg) ==
    << Call("set_title", window, "NYX OS", okTitle, "FailedToSendMessage"),
       Call("set_fullscreen", window, "true", okFull, "FailedToSendMessage"),
       Call("register", DefaultAccelerator, DefaultAccelerator, okReg, "GlobalShortcut") >>

setup ==
    /\ phase = "setup"
    /\ LET window == GetWindow(MainLabel)
       IN  IF window # NoWindow
           THEN \E okTitle, okFull, okReg \in BOOLEAN :
                  LET calls == SetupCalls(window, okTitle, okFull, okReg)
                  IN  /\ windows' = IF calls[2].ok
                                    THEN [windows EXCEPT ![window].fullscreen = TRUE]
                                    ELSE windows
                      /\ shortcuts' = IF calls[3].ok
                                      THEN With(shortcuts, calls[3].target, calls[3].arg)
                                      ELSE shortcuts
                      /\ live' = Recorded(live, calls[3].target, "register",
                                                calls[3].ok)
                      /\ last' = Step("setup", NoWindow, <<>>, calls, Ok(UnitValue))
                      /\ phase' = "running"
                      /\ UNCHANGED exitCode
           ELSE \* get_window("main").unwrap() panics
                /\ phase' = "exited"
                /\ exitCode' = <<PanicExitCode>>
                /\ last' = Step("setup", NoWindow, <<>>, <<>>, Diverges)
                /\ UNCHANGED <<windows, shortcuts, live>>
    /\ UNCHANGED <<os, focused>>

\* tauri::generate_handler![...]
CommandHandlers ==
    {"get_system_info", "set_window_always_on_top", "set_window_fullscreen",
     "minimize_window", "maximize_window", "hide_window", "show_window",
     "launch_external_app", "get_desktop_apps", "get_performance_info",
     "create_native_window", "focus_native_window", "close_native_window",
     "register_global_shortcut", "unregister_global_shortcut"}

(***************************************************************************)
(* Specifications.                                                         *)
(***************************************************************************)
\* a step outside a counted session
Idle == UNCHANGED invocations

\* a step of a session of at most MaxInvocations handler invocations
Counted == invocations < MaxInvocations /\ invocations' = invocations + 1

\* Every handler but the four window-flag commands (always-on-top,
\* fullscreen, minimize, maximize), which only multiply the window states:
\* explored exhaustively.
Next ==
    \/ Idle /\ setup
    \/ Idle /\ get_system_info
    \/ Idle /\ \E p \in AppPathInputs : launch_external_app(p)
    \/ Idle /\ get_desktop_apps
    \/ Idle /\ get_performance_info
    \/ Idle /\ \E w \in Labels : hide_window(w)
    \/ Idle /\ \E w \in Labels : show_window(w)
    \/ Idle /\ \E l \in Labels, t \in Titles, w, h \in SizeInputs :
                  create_native_window(l, t, w, h)
    \/ Idle /\ \E l \in Labels : focus_native_window(l)
    \/ Idle /\ \E l \in Labels : close_native_window(l)
    \/ Idle /\ \E a \in Accelerators : register_global_shortcut(a)
    \/ Idle /\ \E a \in Accelerators : unregister_global_shortcut(a)
    \/ Idle /\ \E a \in Accelerators : shortcut_pressed(a)
    \/ Idle /\ \E e \in TrayEvents : on_system_tray_event(e)

Spec == Init /\ [][Next]_vars

\* Every handler of the program, in sessions of at most MaxInvocations
\* invocations after startup.
SessionNext ==
    \/ Idle /\ setup
    \/ Counted /\ get_system_info
    \/ Counted /\ \E w \in Labels, b \in BOOLEAN : set_window_always_on_top(w, b)
    \/ Counted /\ \E w \in Labels, b \in BOOLEAN : set_window_fullscreen(w, b)
    \/ Counted /\ \E w \in Labels : minimize_window(w)
    \/ Counted /\ \E w \in Labels : maximize_window(w)
    \/ Counted /\ \E w \in Labels : hide_window(w)
    \/ Counted /\ \E w \in Labels : show_window(w)
    \/ Counted /\ \E p \in AppPathInputs : launch_external_app(p)
    \/ Counted /\ get_desktop_apps
    \/ Counted /\ get_performance_info
    \/ Counted /\ \E l \in Labels, t \in Titles, w, h \in SizeInputs :
                     create_native_window(l, t, w, h)
    \/ Counted /\ \E l \in Labels : focus_native_window(l)
    \/ Counted /\ \E l \in Labels : close_native_window(l)
    \/ Counted /\ \E a \in Accelerators : register_global_shortcut(a)
    \/ Counted /\ \E a \in Accelerators : unregister_global_shortcut(a)
    \/ Counted /\ \E a \in Accelerators : shortcut_pressed(a)
    \/ Counted /\ \E e \in TrayEvents : on_system_tray_event(e)

SpecSession == Init /\ [][SessionNext]_vars

(***************************************************************************)
(* Properties.  In an action property, last' names the handler that took   *)
(* the step and what it did; unprimed variables are the state it ran in.   *)
(***************************************************************************)
TrayStep(step) == step.op = "on_system_tray_event"
QuitEvent == <<"MenuItemClick", "quit">>
HandledQuit == TrayStep(last) /\ last.arg = QuitEvent

\* C1: a tray menu click with id "quit" can be handled in every running
\* state; once it has been handled the process has exited with code 0, and a
\* process that has exited handled nothing after that click.
C1_QuitTerminates ==
    /\ phase = "running" => ENABLED on_system_tray_event(QuitEvent)
    /\ HandledQuit => phase = "exited" /\ exitCode = <<0>>
    /\ phase = "exited" => HandledQuit

\* quit was clicked while the main window was gone, another window was open
\* and a shortcut was registered
C1_Witness ==
    /\ HandledQuit /\ phase = "exited"
    /\ MainLabel \notin DOMAIN windows
    /\ DOMAIN windows # {}
    /\ shortcuts # <<>>

IgnoredTrayEvent(e) ==
    \/ e[1] \notin {"LeftClick", "MenuItemClick"}
    \/ e[1] = "MenuItemClick" /\ e[2] \notin {"quit", "show", "hide"}

\* C2: a tray event that is neither LeftClick nor a MenuItemClick with id
\* "quit", "show" or "hide" changes no window's existence, visibility or
\* focus, no registered shortcut and not the running state of the process,
\* makes no toolkit call (so emits nothing) and reports no error.
C2_UnknownTrayIgnored ==
    [][ (TrayStep(last') /\ IgnoredTrayEvent(last'.arg))
        => /\ windows' = windows
           /\ focused' = focused
           /\ shortcuts' = shortcuts
           /\ phase = "running" /\ phase' = "running"
           /\ exitCode' = exitCode
           /\ last'.calls = <<>>
           /\ last'.ret.tag = "Unit" ]_vars

\* an unknown menu id was clicked while two windows were open, one focused
C2_Witness ==
    /\ TrayStep(last) /\ last.arg = <<"MenuItemClick", "about">>
    /\ Cardinality(DOMAIN windows) >= 2
    /\ focused # NoWindow

\* C3: launch_external_app spawns app_path and waits for nothing; it
\* returns Ok(()) exactly when the spawn succeeded, and otherwise (always so
\* for a path that is no executable) Err with a message beginning
\* "Failed to launch app: " followed by the error's text; the application
\* keeps running and no window, focus or shortcut changes.
C3_LaunchReportsError ==
    [][ last'.op = "launch_external_app"
        => LET c == last'.calls[1]
               r == last'.ret
           IN  /\ Len(last'.calls) = 1
               /\ c.fn = "spawn" /\ c.target = last'.arg[1]
               /\ r.tag \in {"Ok", "Err"}
               /\ r.tag = "Ok" <=> c.ok
               /\ r.tag = "Ok" => r.value = UnitValue
               /\ r.tag = "Err" => r.msg = <<"Failed to launch app: ", to_string(c.err)>>
               /\ last'.arg[1] \notin InstalledApps => r.tag = "Err"
               /\ phase = "running" /\ phase' = "running"
               /\ UNCHANGED <<exitCode, windows, focused, shortcuts>> ]_vars

\* a path that names no executable was launched
C3_Witness ==
    /\ last.op = "launch_external_app"
    /\ last.arg = <<"/no/such/app">>
    /\ last.ret.tag = "Err"
    /\ phase = "running"

\* C4: get_system_info always returns Ok, with a platform of the known
\* OS names and a cpu_count of at least 1: exactly 1 when the parallelism
\* query failed, and the queried non-zero value otherwise.
C4_SystemInfo ==
    last.op = "get_system_info"
    => /\ last.ret.tag = "Ok"
       /\ last.ret.value.platform \in KnownOS
       /\ last.ret.value.cpu_count >= 1
       /\ last.arg[1] = "Err" => last.ret.value.cpu_count = 1
       /\ last.arg[1] = "Ok" => /\ last.arg[2] # 0
                                /\ last.ret.value.cpu_count = last.arg[2]

\* the parallelism query failed
C4_Witness ==
    /\ last.op = "get_system_info"
    /\ last.arg = <<"Err">>
    /\ last.ret.value.cpu_count = 1

\* every failed call of the step is its last call, and the step returns Err
\* with that call's error text
FailurePropagated(step, i) ==
    /\ i = Len(step.calls)
    /\ step.ret.tag = "Err"
    /\ step.ret.msg # <<>>
    /\ step.ret.msg[Len(step.ret.msg)] = to_string(step.calls[i].err)

\* C5, as stated: every operation (command handlers, tray-event handler,
\* startup) reports the first failing call as an error string and performs
\* none of its later steps.
C5_EveryOperationPropagates ==
    \A i \in 1..Len(last.calls) :
        ~last.calls[i].ok => FailurePropagated(last, i)

\* C5, amended: every command handler reports the first failing toolkit or
\* spawn call as an error string ending in the error's text and makes no
\* later call (get_system_info alone replaces a failed parallelism query by
\* 1); the tray-event handler, the shortcut callbacks and startup never
\* report an error.
C5_CommandsPropagate ==
    /\ last.op \in CommandHandlers
       => \A i \in 1..Len(last.calls) :
             (~last.calls[i].ok /\ last.calls[i].fn # "available_parallelism")
             => FailurePropagated(last, i)
    /\ last.op \in {"on_system_tray_event", "shortcut_pressed", "setup"}
       => last.ret.tag # "Err"

\* focus_native_window stopped at a failed show
C5_Witness ==
    /\ last.op = "focus_native_window"
    /\ Len(last.calls) = 1
    /\ ~last.calls[1].ok
    /\ last.ret.tag = "Err"

WindowStateCommands ==
    {"set_window_always_on_top", "set_window_fullscreen", "minimize_window",
     "maximize_window", "hide_window", "show_window"}

\* no window but w changes in existence, state or focus
OthersUntouched(w) ==
    \A x \in Labels \ {w} :
        /\ x \in DOMAIN windows' <=> x \in DOMAIN windows
        /\ x \in DOMAIN windows => windows'[x] = windows[x]
        /\ focused' = x <=> focused = x

\* the set of windows and the registered shortcuts are as they were
SharedUntouched ==
    /\ DOMAIN windows' = DOMAIN windows
    /\ shortcuts' = shortcuts

\* C6, as stated: a command invocation changes no window but the one it was
\* passed, and neither the set of windows nor the registered shortcuts.
C6_EveryCommandLocal ==
    [][ last'.op \in CommandHandlers
        => OthersUntouched(last'.window) /\ SharedUntouched ]_vars

\* C6, amended: each of the six window-state commands makes one toolkit call,
\* on the window it was passed; no other window changes in existence, state
\* or focus, and the set of windows and the registered shortcuts are as they
\* were.
C6_WindowCommandsLocal ==
    [][ last'.op \in WindowStateCommands
        => /\ last'.window \in DOMAIN windows
           /\ Len(last'.calls) = 1
           /\ last'.calls[1].target = last'.window
           /\ OthersUntouched(last'.window)
           /\ SharedUntouched ]_vars

\* a window was hidden while another one was visible
C6_Witness ==
    /\ last.op = "hide_window"
    /\ last.ret.tag = "Ok"
    /\ \E x \in DOMAIN windows \ {last.window} : windows[x].visible

Indices(calls, fn) == {i \in 1..Len(calls) : calls[i].fn = fn}

\* C7: create_native_window emits "nyx:native-window-created" with the
\* requested label at most once, and only after it has built a window with
\* that label; it returns Ok(()) exactly when the build and the emit both
\* succeeded; a failed build (always so when the label is in use) emits
\* nothing, leaves the windows as they were and returns "Failed to create
\* window: ..."; on Err either nothing was created and nothing emitted, or
\* the window was created and no event was delivered.
C7_CreatePairedWithEvent ==
    [][ last'.op = "create_native_window"
        => LET label == last'.arg[1]
               calls == last'.calls
               builds == Indices(calls, "build")
               emits == Indices(calls, "emit_all")
               built == \E i \in builds : calls[i].ok
               delivered == \E i \in emits : calls[i].ok
               r == last'.ret
           IN  /\ Cardinality(builds) = 1
               /\ Cardinality(emits) <= 1
               /\ \A i \in emits :
                     /\ calls[i].target = WindowCreatedEvent
                     /\ calls[i].arg = label
                     /\ \E j \in builds : j < i /\ calls[j].ok /\ calls[j].target = label
               /\ r.tag \in {"Ok", "Err"}
               /\ r.tag = "Ok" <=> built /\ delivered
               /\ label \in DOMAIN windows => ~built
               /\ built => /\ DOMAIN windows' = DOMAIN windows \cup {label}
                           /\ \A x \in DOMAIN windows : windows'[x] = windows[x]
               /\ ~built => /\ emits = {}
                            /\ windows' = windows
                            /\ r.msg[1] = "Failed to create window: "
               /\ r.tag = "Err"
                  => \/ windows' = windows /\ emits = {}
                     \/ label \in DOMAIN windows' \ DOMAIN windows /\ ~delivered ]_vars

\* a window was created and the event was not delivered
C7_Witness ==
    /\ last.op = "create_native_window"
    /\ last.ret.tag = "Err"
    /\ last.arg[1] \in DOMAIN windows
    /\ last.calls[Len(last.calls)].fn = "emit_all"
    /\ ~last.calls[Len(last.calls)].ok

TrayShowEvents == {<<"LeftClick", "">>, <<"MenuItemClick", "show">>}
TrayHideEvent == <<"MenuItemClick", "hide">>
CallNames(calls) == [i \in 1..Len(calls) |-> calls[i].fn]

\* C8: on a tray LeftClick or MenuItemClick "show" the window labelled
\* "main", if there is one, is asked to show and then to take focus, whether
\* or not show succeeded; on MenuItemClick "hide" it is asked to hide; with no
\* such window nothing is called and nothing changes.  Every call is made on
\* "main", no other window changes in existence or state, no window is
\* created or closed, no error is reported and the process keeps running.
C8_TrayActsOnMain ==
    [][ (TrayStep(last') /\ last'.arg \in TrayShowEvents \cup {TrayHideEvent})
        => LET calls == last'.calls
           IN  /\ IF MainLabel \in DOMAIN windows
                  THEN /\ CallNames(calls) = IF last'.arg = TrayHideEvent
                                             THEN <<"hide">>
                                             ELSE <<"show", "set_focus">>
                       /\ \A i \in 1..Len(calls) :
                             /\ calls[i].target = MainLabel
                             /\ (calls[i].ok /\ calls[i].fn = "show")
                                => windows'[MainLabel].visible
                             /\ (calls[i].ok /\ calls[i].fn = "hide")
                                => ~windows'[MainLabel].visible
                             /\ (calls[i].ok /\ calls[i].fn = "set_focus")
                                => focused' = MainLabel
                  ELSE /\ calls = <<>>
                       /\ windows' = windows
                       /\ focused' = focused
               /\ DOMAIN windows' = DOMAIN windows
               /\ \A x \in DOMAIN windows \ {MainLabel} : windows'[x] = windows[x]
               /\ shortcuts' = shortcuts
               /\ last'.ret.tag = "Unit"
               /\ phase = "running" /\ phase' = "running"
               /\ exitCode' = exitCode ]_vars

\* a tray left click whose show failed still asked for focus, with another
\* window open
C8_Witness ==
    /\ TrayStep(last) /\ last.arg = <<"LeftClick", "">>
    /\ Len(last.calls) = 2
    /\ ~last.calls[1].ok
    /\ Cardinality(DOMAIN windows) >= 2
    /\ phase = "running"

\* C9: focus_native_window and close_native_window with a label no window
\* has make no call, change nothing and return Err("Window not found"); with
\* the label of a window they call only that window and change no other one:
\* close returns Ok exactly when the close succeeded and then that window,
\* and only it, is gone (so the label is again one no window has); focus
\* calls show, calls set_focus only after show succeeded, and returns Ok
\* exactly when both succeeded.
C9_FocusCloseByLabel ==
    [][ last'.op \in {"focus_native_window", "close_native_window"}
        => LET label == last'.arg[1]
               calls == last'.calls
               r == last'.ret
           IN  IF label \notin DOMAIN windows
               THEN /\ r.tag = "Err" /\ r.msg = <<"Window not found">>
                    /\ calls = <<>>
                    /\ windows' = windows
                    /\ focused' = focused
               ELSE /\ calls # <<>>
                    /\ \A i \in 1..Len(calls) : calls[i].target = label
                    /\ \A x \in DOMAIN windows \ {label} :
                          x \in DOMAIN windows' /\ windows'[x] = windows[x]
                    /\ r.tag \in {"Ok", "Err"}
                    /\ r.tag = "Ok" <=> \A i \in 1..Len(calls) : calls[i].ok
                    /\ r.msg # <<"Window not found">>
                    /\ IF last'.op = "close_native_window"
                       THEN /\ CallNames(calls) = <<"close">>
                            /\ r.tag = "Ok" => DOMAIN windows' = DOMAIN windows \ {label}
                            /\ r.tag = "Err" => windows' = windows
                       ELSE /\ CallNames(calls) \in {<<"show">>, <<"show", "set_focus">>}
                            /\ Len(calls) = 2 <=> calls[1].ok
                            /\ r.tag = "Ok" => /\ Len(calls) = 2
                                               /\ windows'[label].visible
                                               /\ focused' = label
                            /\ DOMAIN windows' = DOMAIN windows ]_vars

\* the main window was closed and then asked to take focus
C9_Witness ==
    /\ last.op = "focus_native_window"
    /\ last.arg = <<MainLabel>>
    /\ MainLabel \notin DOMAIN windows
    /\ last.ret.tag = "Err"

ShortcutEmits(calls) ==
    {i \in 1..Len(calls) :
        calls[i].fn = "emit_all" /\ calls[i].target = GlobalShortcutEvent}

\* C10: "nyx:global-shortcut" is emitted only by pressing an accelerator, and
\* pressing accelerator A emits it, once and with payload A, exactly when A's
\* latest successful registration (the one at startup included) has not been
\* followed by a successful unregistration of A.  A failed register or
\* unregister returns Err beginning "Failed to register shortcut: " or
\* "Failed to unregister shortcut: " and leaves the registered accelerators as
\* they were; no call changes the registration of another accelerator.
C10_ShortcutEvents ==
    [][ LET calls == last'.calls
            r == last'.ret
        IN  /\ ShortcutEmits(calls) # {} => last'.op = "shortcut_pressed"
            /\ last'.op = "shortcut_pressed"
               => /\ IF last'.arg[1] \in live
                     THEN /\ Len(calls) = 1 /\ ShortcutEmits(calls) = {1}
                          /\ calls[1].arg = last'.arg[1]
                     ELSE calls = <<>>
                  /\ shortcuts' = shortcuts
            /\ last'.op \in {"register_global_shortcut", "unregister_global_shortcut"}
               => LET a == last'.arg[1]
                      reg == last'.op = "register_global_shortcut"
                  IN  /\ Len(calls) = 1 /\ calls[1].target = a
                      /\ calls[1].fn = IF reg THEN "register" ELSE "unregister"
                      /\ r.tag = "Ok" <=> calls[1].ok
                      /\ r.tag = "Ok" => (a \in DOMAIN shortcuts' <=> reg)
                      /\ r.tag # "Ok"
                         => /\ r.tag = "Err"
                            /\ r.msg[1] = IF reg THEN "Failed to register shortcut: "
                                          ELSE "Failed to unregister shortcut: "
                            /\ shortcuts' = shortcuts
                      /\ \A b \in Accelerators \ {a} :
                            b \in DOMAIN shortcuts' <=> b \in DOMAIN shortcuts
            /\ (last'.op = "setup" /\ calls # <<>> /\ calls[3].ok)
               => DefaultAccelerator \in live'
            /\ DOMAIN shortcuts' = live'
            /\ \A a \in DOMAIN shortcuts' : shortcuts'[a] = a ]_vars

\* a registered accelerator other than the default one was pressed
C10_Witness ==
    /\ last.op = "shortcut_pressed"
    /\ last.arg[1] # DefaultAccelerator
    /\ Len(last.calls) = 1
    /\ last.calls[1].arg = last.arg[1]
====
